---------------------------- MODULE Spec2Model ----------------------------
(***************************************************************************)
(* Model of mb2-audio-experiments:                                         *)
(*   src/src/main.rs     - waveform selector: one static sample buffer,    *)
(*                         regenerated by make_wave and played by PWM0     *)
(*                         from both sequence slots, buttons A/B choose    *)
(*                         the waveform, one LED column shows the choice.  *)
(*   src/src/resample.rs - 16x zero-stuffing upsampler (Upsample16::fill), *)
(*                         biquad sections (Section::filter) and the       *)
(*                         iterator pipeline resample().                   *)
(*                                                                         *)
(* Four specifications share the module; each leaves the variables of the  *)
(* other parts untouched:                                                  *)
(*   SpecMain     - main() together with the PWM engine and the buttons    *)
(*   SpecFill     - repeated calls of Upsample16::fill                     *)
(*   SpecSection  - repeated calls of Section::filter on one section       *)
(*   SpecResample - pulls on the iterator returned by resample()           *)
(*                                                                         *)
(* f32 values are modelled in fixed point: a value v stands for v / FP and *)
(* a coefficient c for c / CQ; products are truncated toward zero.         *)
(***************************************************************************)
EXTENDS Integers, Sequences, FiniteSets

\* ------------------------------------------------------------------ bounds

\* Length of the static sample buffer SAMPS in the model (LEN in make_wave).
BufLen == 3
\* Button presses main() accepts in a run (caps the press / refill counters).
MaxPresses == 3
\* Longest source byte array handed to Upsample16::new.
MaxSrcLen == 2
\* Longest destination slice of one fill call.
MaxDest == 18
\* Output samples produced over all fill calls of a run.
MaxOut == 40
\* Calls of Section::filter in a run of one section.
MaxCalls == 4
\* Longest byte sequence fed to resample.
MaxResLen == 3

\* ------------------------------------------------------- main.rs constants

SAMPLE_RATE == 125000
PWM_CLOCK == 16000000
SAMPLE_RANGE == PWM_CLOCK \div SAMPLE_RATE
POLARITY == 32768
N_LEDS == 5

\* --------------------------------------------------- resample.rs constants

\* upsampling factor: the modulus of i_out, and interpolate_zeros(input, 16)
FACTOR == 16
\* gain applied by Upsample16::fill
FILL_GAIN == 16
\* gain applied by resample
RESAMPLE_GAIN == 15
\* centre of the unsigned 8-bit sample range
MIDPOINT == 128

\* The four generators of `waves`, in the order of the array.
waves == <<"silence", "sine", "sweep", "chord">>
n_waves == Len(waves)

VARIABLES
    \* ---- main() and its callees
    pc,            \* position of the single software thread in main()
    cur_wave,      \* main::cur_wave
    prev_wav,      \* main::prev_wav (the local of the button branch)
    a, b,          \* the two button readings of the current iteration
    leds,          \* leds[c] = TRUE: column c driven high
    SAMPS,         \* make_wave::SAMPS, the static buffer
    mw_i,          \* loop index inside make_wave
    mw_ret,        \* where make_wave returns to: the first load or a reload
    \* ---- environment: button pins
    button_a_low, button_b_low,
    \* ---- PWM peripheral
    pwm_playing,   \* sequence playback running
    seq_ptr,       \* SEQ[0].PTR and SEQ[1].PTR: the two blocks handed over
    hw_seq, hw_idx,\* sequence and sample the engine reads next
    events_seqend, \* EVENTS_SEQEND[0..1]
    pwm_duty,      \* last compare value fetched by the engine
    \* ---- bookkeeping of the run
    presses, refills, loads

mainVars == <<pc, cur_wave, prev_wav, a, b, leds, SAMPS, mw_i, mw_ret,
              button_a_low, button_b_low, pwm_playing, seq_ptr, hw_seq,
              hw_idx, events_seqend, pwm_duty, presses, refills, loads>>

VARIABLES
    source,        \* Upsample16::source, the byte array (1-based here)
    i_out,         \* position inside the current group of 16 outputs
    i_in,          \* number of source bytes consumed so far
    dest_log,      \* every value produced so far, over all fill calls
    fill_ret       \* <<value returned by the last fill call>>, <<>> before it

VARIABLES
    s_c,           \* which coefficient set the section under test uses
    s_st,          \* its history: xs (3 inputs) and ys (2 outputs)
    x_log, y_log   \* inputs passed and outputs returned, call by call

VARIABLES
    r_source,      \* the bytes the input iterator yields
    r_sec,         \* the two sections of filter(), in pipeline order
    r_filt,        \* every value that left the cascade so far
    r_out          \* every byte resample has yielded so far

fillVars == <<source, i_out, i_in, dest_log, fill_ret>>

secVars == <<s_c, s_st, x_log, y_log>>

resVars == <<r_source, r_sec, r_filt, r_out>>

notMain == <<fillVars, secVars, resVars>>
notFill == <<mainVars, secVars, resVars>>
notSection == <<mainVars, fillVars, resVars>>
notResample == <<mainVars, fillVars, secVars>>

\* -------------------------------------------------------------- generators

\* A normalised sample is a pair <<num, den>> standing for num / den.
\* sinf at quarter-turn resolution: phase p counts quarter turns.
sinq(p) == CASE p % 4 = 0 -> 0
             [] p % 4 = 1 -> 1
             [] p % 4 = 2 -> 0
             [] p % 4 = 3 -> -1

\* conv: (0.5 * x + 1.0) * 0.5 scaled by SAMPLE_RANGE - 1 and floored.
conv(x) == ((x[1] + 2 * x[2]) * (SAMPLE_RANGE - 1)) \div (4 * x[2])

silence(i) == conv(<<0, 1>>)

sine(i) == conv(<<sinq(i), 1>>)

\* the phase of the sweep grows faster than linearly in i
sweep(i) == conv(<<sinq((i * (i + 1)) \div 2 + 1), 1>>)

\* three partials, gain 1 / 3
chord(i) == conv(<<sinq(i) + sinq(2 * i + 1) + sinq(3 * i + 1), 3>>)

\* g(&mut SAMPS, ...) : the value generator g stores at index i
Generate(g, i) == CASE g = "silence" -> silence(i)
                    [] g = "sine"    -> sine(i)
                    [] g = "sweep"   -> sweep(i)
                    [] g = "chord"   -> chord(i)

\* *s |= 0x8000
SetPolarityNone(s) == s
SetPolarity(s) == IF s >= POLARITY THEN s ELSE s + POLARITY

\* the buffer a complete make_wave(g) pass leaves behind
WaveBuffer(g) == [i \in 0..(BufLen - 1) |-> SetPolarity(Generate(g, i))]

\* the memory a sequence pointer refers to
Deref(p) == IF p = "SAMPS" THEN SAMPS ELSE <<>>
Block(X) == Deref(seq_ptr[X])


\* ------------------------------------------------------------ main(): Init

MainInit ==
    /\ pc = "show"
    /\ cur_wave = 0
    /\ prev_wav = 0
    /\ a = FALSE /\ b = FALSE
    /\ leds = [c \in 0..(N_LEDS - 1) |-> TRUE]
    /\ SAMPS = [i \in 0..(BufLen - 1) |-> 0]
    /\ mw_i = 0
    /\ mw_ret = "first"
    /\ button_a_low = FALSE /\ button_b_low = FALSE
    /\ pwm_playing = FALSE
    /\ seq_ptr = [X \in 0..1 |-> "null"]
    /\ hw_seq = 0 /\ hw_idx = 0
    /\ events_seqend = [X \in 0..1 |-> FALSE]
    /\ pwm_duty = 0
    /\ presses = 0 /\ refills = 0 /\ loads = 0

\* --------------------------------------------------------- main(): helpers

\* cur_wave after a press: button B steps forward, button A backward.
NextWave(cur, bb) == IF bb THEN (cur + n_waves + 1) % n_waves
                           ELSE (cur + n_waves - 1) % n_waves

\* leds[prev_wav].set_high()
LedsKept(l, prev) == l
LedsAfterSwitch(l, prev) == [l EXCEPT ![prev] = TRUE]

\* ---------------------------------------------------------- main(): steps

hwVars == <<pwm_playing, seq_ptr, hw_seq, hw_idx, events_seqend, pwm_duty>>
btnVars == <<button_a_low, button_b_low>>
cntVars == <<presses, refills, loads>>

\* leds[cur_wave].set_low(); then the call make_wave(waves[cur_wave])
ShowFirst ==
    /\ pc = "show"
    /\ leds' = [leds EXCEPT ![cur_wave] = FALSE]
    /\ pc' = "gen" /\ mw_i' = 0 /\ mw_ret' = "first"
    /\ UNCHANGED <<cur_wave, prev_wav, a, b, SAMPS>>
    /\ UNCHANGED <<hwVars, btnVars, cntVars, notMain>>

\* one iteration of the generator's loop over SAMPS
GenSample ==
    /\ pc = "gen"
    /\ SAMPS' = [SAMPS EXCEPT ![mw_i] = Generate(waves[cur_wave + 1], mw_i)]
    /\ IF mw_i + 1 = BufLen
          THEN pc' = "flag" /\ mw_i' = 0
          ELSE pc' = "gen" /\ mw_i' = mw_i + 1
    /\ UNCHANGED <<cur_wave, prev_wav, a, b, leds, mw_ret>>
    /\ UNCHANGED <<hwVars, btnVars, cntVars, notMain>>

\* one iteration of the loop that sets bit 15; the last one returns SAMPS
FlagSample ==
    /\ pc = "flag"
    /\ SAMPS' = [SAMPS EXCEPT ![mw_i] = SetPolarity(SAMPS[mw_i])]
    /\ IF mw_i + 1 = BufLen
          THEN pc' = "load" /\ mw_i' = 0 /\ refills' = refills + 1
          ELSE pc' = "flag" /\ mw_i' = mw_i + 1 /\ refills' = refills
    /\ UNCHANGED <<cur_wave, prev_wav, a, b, leds, mw_ret>>
    /\ UNCHANGED <<hwVars, btnVars, presses, loads, notMain>>

\* speaker.load(Some(samps), Some(samps), true): both slots get the same
\* buffer, the completion events are reset and playback starts at slot 0
Load ==
    /\ pc = "load"
    /\ seq_ptr' = [X \in 0..1 |-> "SAMPS"]
    /\ events_seqend' = [X \in 0..1 |-> FALSE]
    /\ hw_seq' = 0 /\ hw_idx' = 0
    /\ pwm_playing' = TRUE
    /\ loads' = loads + 1
    /\ pc' = IF mw_ret = "first" THEN "poll" ELSE "led_off"
    /\ UNCHANGED <<cur_wave, prev_wav, a, b, leds, SAMPS, mw_i, mw_ret>>
    /\ UNCHANGED <<pwm_duty, btnVars, presses, refills, notMain>>

\* top of the loop: read both buttons, branch on a || b
Poll ==
    /\ pc = "poll"
    /\ a' = button_a_low /\ b' = button_b_low
    /\ IF button_a_low \/ button_b_low
          THEN /\ presses < MaxPresses
               /\ presses' = presses + 1
               /\ pc' = "select"
          ELSE /\ presses' = presses
               /\ pc' = "poll"
    /\ UNCHANGED <<cur_wave, prev_wav, leds, SAMPS, mw_i, mw_ret>>
    /\ UNCHANGED <<hwVars, btnVars, refills, loads, notMain>>

\* prev_wav = cur_wave; step cur_wave; leds[cur_wave].set_low()
Select ==
    /\ pc = "select"
    /\ prev_wav' = cur_wave
    /\ cur_wave' = NextWave(cur_wave, b)
    /\ leds' = [leds EXCEPT ![NextWave(cur_wave, b)] = FALSE]
    /\ pc' = "release"
    /\ UNCHANGED <<a, b, SAMPS, mw_i, mw_ret>>
    /\ UNCHANGED <<hwVars, btnVars, cntVars, notMain>>

\* button_release: spins until the pressed button reads high again
Release ==
    /\ pc = "release"
    /\ ~(IF b THEN button_b_low ELSE button_a_low)
    /\ pc' = "stop"
    /\ UNCHANGED <<cur_wave, prev_wav, a, b, leds, SAMPS, mw_i, mw_ret>>
    /\ UNCHANGED <<hwVars, btnVars, cntVars, notMain>>

\* pwm_seq.stop(); pwm_seq.split(); then the call make_wave(waves[cur_wave])
StopKeepsPlaying ==
    /\ pc = "stop"
    /\ pc' = "gen" /\ mw_i' = 0 /\ mw_ret' = "reload"
    /\ UNCHANGED <<cur_wave, prev_wav, a, b, leds, SAMPS>>
    /\ UNCHANGED <<hwVars, btnVars, cntVars, notMain>>

StopSkipsMakeWave ==
    /\ pc = "stop"
    /\ pwm_playing' = FALSE
    /\ pc' = "load" /\ mw_i' = 0 /\ mw_ret' = "reload"
    /\ UNCHANGED <<cur_wave, prev_wav, a, b, leds, SAMPS>>
    /\ UNCHANGED <<seq_ptr, hw_seq, hw_idx, events_seqend, pwm_duty>>
    /\ UNCHANGED <<btnVars, cntVars, notMain>>

Stop ==
    /\ pc = "stop"
    /\ pwm_playing' = FALSE
    /\ pc' = "gen" /\ mw_i' = 0 /\ mw_ret' = "reload"
    /\ UNCHANGED <<cur_wave, prev_wav, a, b, leds, SAMPS>>
    /\ UNCHANGED <<seq_ptr, hw_seq, hw_idx, events_seqend, pwm_duty>>
    /\ UNCHANGED <<btnVars, cntVars, notMain>>

\* leds[prev_wav].set_high(), the last statement of the button branch
LedOff ==
    /\ pc = "led_off"
    /\ leds' = LedsAfterSwitch(leds, prev_wav)
    /\ pc' = "poll"
    /\ UNCHANGED <<cur_wave, prev_wav, a, b, SAMPS, mw_i, mw_ret>>
    /\ UNCHANGED <<hwVars, btnVars, cntVars, notMain>>

\* the PWM engine fetches one sample; at the end of a slot it raises that
\* slot's SEQEND event and continues with the other slot (loop_inf)
HwTick ==
    /\ pwm_playing
    /\ pwm_duty' = Block(hw_seq)[hw_idx]
    /\ IF hw_idx + 1 = BufLen
          THEN /\ events_seqend' = [events_seqend EXCEPT ![hw_seq] = TRUE]
               /\ hw_seq' = 1 - hw_seq
               /\ hw_idx' = 0
          ELSE /\ hw_idx' = hw_idx + 1
               /\ UNCHANGED <<events_seqend, hw_seq>>
    /\ UNCHANGED <<pc, cur_wave, prev_wav, a, b, leds, SAMPS, mw_i, mw_ret>>
    /\ UNCHANGED <<pwm_playing, seq_ptr, btnVars, cntVars, notMain>>

\* the user presses or releases a button
ButtonChange ==
    /\ \/ button_a_low' = ~button_a_low /\ UNCHANGED button_b_low
       \/ button_b_low' = ~button_b_low /\ UNCHANGED button_a_low
    /\ UNCHANGED <<pc, cur_wave, prev_wav, a, b, leds, SAMPS, mw_i, mw_ret>>
    /\ UNCHANGED <<hwVars, cntVars, notMain>>

MainNext ==
    \/ ShowFirst \/ GenSample \/ FlagSample \/ Load \/ Poll \/ Select
    \/ Release \/ Stop \/ LedOff \/ HwTick \/ ButtonChange


\* ===================================================== Upsample16 (fill)

\* byte values tried as source samples
FillBytes == {0, 127, 128, 129, 255}

SeqsUpTo(S, n) == UNION {[1..k -> S] : k \in 0..n}

\* Upsample16::new: both counters start at 0
FillInit ==
    /\ source \in SeqsUpTo(FillBytes, MaxSrcLen)
    /\ i_out = 0
    /\ i_in = 0
    /\ dest_log = <<>>
    /\ fill_ret = <<>>

\* the guard of the `if`: a source sample is due and one is left
EmitNow(io, ii, src) == io = 0 /\ ii < Len(src)

\* 16.0 * (self.source[self.i_in - 1] as f32 - 128.0)
SourceTerm(s) == FILL_GAIN * (s - MIDPOINT)

\* self.i_in += 1
NextInWrapping(ii, src) == (ii + 1) % Len(src)
NextIn(ii, src) == ii + 1

\* self.i_out = (self.i_out + 1) % 16
NextOutNoWrap(io) == io + 1
NextOut(io) == (io + 1) % FACTOR

\* one iteration of the loop body, on the record [io, ii, log]
FillStep(st, src) ==
    IF EmitNow(st.io, st.ii, src)
       THEN [io  |-> NextOut(st.io),
             ii  |-> NextIn(st.ii, src),
             log |-> Append(st.log, SourceTerm(src[st.ii + 1]))]
       ELSE [io  |-> NextOut(st.io),
             ii  |-> st.ii,
             log |-> Append(st.log, 0)]

\* the loop `for s_out in dest` over a slice of n elements
RECURSIVE FillLoop(_, _, _)
FillLoop(n, st, src) ==
    IF n = 0 THEN st ELSE FillLoop(n - 1, FillStep(st, src), src)

\* a call fill(dest) with dest.len() = n; returns i_in < source.len()
Fill ==
    \E n \in 0..MaxDest :
       /\ Len(dest_log) + n <= MaxOut
       /\ LET st == FillLoop(n, [io |-> i_out, ii |-> i_in, log |-> dest_log],
                             source)
          IN /\ i_out' = st.io
             /\ i_in' = st.ii
             /\ dest_log' = st.log
             /\ fill_ret' = <<st.ii < Len(source)>>
       /\ UNCHANGED <<source, notFill>>

FillNext == Fill


\* ================================================ fixed-point arithmetic

\* resolution of a value and of a coefficient
FP == 2^10
LIMB == 2^10
CQ == LIMB * LIMB

Abs(x) == IF x < 0 THEN -x ELSE x
Sign(x) == IF x < 0 THEN -1 ELSE 1

\* floor(c * v / CQ) for c, v >= 0, by limbs so that no product overflows
MulMag(c, v) ==
    LET c1 == c \div LIMB
        c0 == c % LIMB
        v1 == v \div LIMB
        v0 == v % LIMB
    IN  c1 * v1 + ((c1 * v0 + c0 * v1) + ((c0 * v0) \div LIMB)) \div LIMB

\* the f32 product coefficient * value, truncated toward zero
MulQ(c, v) == Sign(c) * Sign(v) * MulMag(Abs(c), Abs(v))

\* COEFFS[section][0 = b, 1 = a][k], each entry rounded to a multiple of 1/CQ
COEFFS == << << <<76, 153, 76>>, <<1048576, -1742744, 728310>> >>,
             << <<1048576, 2097152, 1048576>>, <<1048576, -1913963, 902884>> >> >>

\* ============================================================== Section

\* b[0]*x[0] + b[1]*x[1] + b[2]*x[2] - a[1]*y[0] - a[2]*y[1]
biquad(x, y, c) ==
    MulQ(c[1][1], x[1]) + MulQ(c[1][2], x[2]) + MulQ(c[1][3], x[3])
      - MulQ(c[2][2], y[1]) - MulQ(c[2][3], y[2])

\* Section::new: zero history
SectionNew == [xs |-> <<0, 0, 0>>, ys |-> <<0, 0>>]

\* Section::filter(x0): y0 is computed from the history as it stands, then
\* x0 and y0 are shifted in; returns the new section state and y0
SectionFilter(st, c, x0) ==
    LET y0 == biquad(st.xs, st.ys, c)
    IN  [st |-> [xs |-> <<x0, st.xs[1], st.xs[2]>>,
                 ys |-> <<y0, st.ys[1]>>],
         y0 |-> y0]

\* inputs tried: silence, a small and the two extreme re-centred samples
SectionInputs == {-1920 * FP, 0, 15 * FP, 1905 * FP}

SectionInit ==
    /\ s_c \in 1..2
    /\ s_st = SectionNew
    /\ x_log = <<>>
    /\ y_log = <<>>

\* one call filter(x0)
FilterCall ==
    \E x0 \in SectionInputs :
       /\ Len(x_log) < MaxCalls
       /\ LET r == SectionFilter(s_st, COEFFS[s_c], x0)
          IN /\ s_st' = r.st
             /\ x_log' = Append(x_log, x0)
             /\ y_log' = Append(y_log, r.y0)
       /\ UNCHANGED <<s_c, notSection>>

SectionNext == FilterCall

\* ============================================================= resample

\* x.map(|s| 15.0 * (s as f32 - 128.0))
Center(s) == RESAMPLE_GAIN * (s - MIDPOINT) * FP

\* interpolate_zeros(input, 16): element k of the stretched stream
InterpolateZeros(src, k) ==
    IF k % FACTOR = 0 THEN Center(src[k \div FACTOR + 1]) ELSE 0

\* f32::clamp
Clamp(v, lo, hi) == IF v < lo THEN lo ELSE IF v > hi THEN hi ELSE v

\* `as u8` on an f32: truncation toward zero, saturating at 0 and 255
AsU8(v) ==
    LET t == Sign(v) * (Abs(v) \div FP)
    IN  IF t < 0 THEN 0 ELSE IF t > 255 THEN 255 ELSE t

\* (s + 128.0).clamp(0.0, 255.0) as u8
RequantizeWrapping(s) == ((s + MIDPOINT * FP) \div FP) % 256
RequantizeNoOffset(s) == AsU8(Clamp(s, 0, 255 * FP))
Requantize(s) == AsU8(Clamp(s + MIDPOINT * FP, 0, 255 * FP))

ResBytes == {0, 128, 255}

ResInit ==
    /\ r_source \in SeqsUpTo(ResBytes, MaxResLen)
    /\ r_sec = <<SectionNew, SectionNew>>
    /\ r_filt = <<>>
    /\ r_out = <<>>

\* section(x, c): one Section per stage, fed element by element
section(st, c, x) == SectionFilter(st, c, x)

\* one pull on the iterator returned by resample: one stretched input
\* element goes through section 0, then section 1, then requantization
Pull ==
    /\ Len(r_out) < FACTOR * Len(r_source)
    /\ LET x  == InterpolateZeros(r_source, Len(r_out))
           s0 == section(r_sec[1], COEFFS[1], x)
           s1 == section(r_sec[2], COEFFS[2], s0.y0)
       IN /\ r_sec' = <<s0.st, s1.st>>
          /\ r_filt' = Append(r_filt, s1.y0)
          /\ r_out' = Append(r_out, Requantize(s1.y0))
    /\ UNCHANGED <<r_source, notResample>>

ResNext == Pull

\* ======================================================= specifications

vars == <<mainVars, fillVars, secVars, resVars>>

\* the parts a specification does not exercise stay as constructed
MainIdle == MainInit
FillIdle == /\ source = <<>> /\ i_out = 0 /\ i_in = 0
            /\ dest_log = <<>> /\ fill_ret = <<>>
SecIdle == /\ s_c = 1 /\ s_st = SectionNew /\ x_log = <<>> /\ y_log = <<>>
ResIdle == /\ r_source = <<>> /\ r_sec = <<SectionNew, SectionNew>>
           /\ r_filt = <<>> /\ r_out = <<>>

InitMain == MainInit /\ FillIdle /\ SecIdle /\ ResIdle
InitFill == MainIdle /\ FillInit /\ SecIdle /\ ResIdle
InitSection == MainIdle /\ FillIdle /\ SectionInit /\ ResIdle
InitResample == MainIdle /\ FillIdle /\ SecIdle /\ ResInit

SpecMain == InitMain /\ [][MainNext]_vars
SpecFill == InitFill /\ [][FillNext]_vars
SpecSection == InitSection /\ [][SectionNext]_vars
SpecResample == InitResample /\ [][ResNext]_vars

\* =============================================================== claims

\* a step writes the block handed to the sink through slot X
Rewrites(X) == seq_ptr[X] # "null" /\ Block(X)' # Block(X)

C9_BufferWrittenOnlyWhileStopped ==
    [][/\ SAMPS' # SAMPS => /\ pc \in {"gen", "flag"}
                            /\ ~pwm_playing
                            /\ ~pwm_playing'
       /\ (~pwm_playing /\ pwm_playing') =>
             /\ SAMPS' = SAMPS
             /\ \A i \in 0..(BufLen - 1) :
                   /\ SAMPS[i] >= POLARITY
                   /\ SAMPS[i] - POLARITY = Generate(waves[cur_wave + 1], i)
             /\ refills = loads + 1]_vars

\* the sink plays a buffer regenerated after a press
C9_Witness ==
    /\ pwm_playing /\ loads = 2 /\ pc = "led_off"
    /\ \A i \in 0..(BufLen - 1) : SAMPS[i] >= POLARITY
    /\ SAMPS # WaveBuffer(waves[prev_wav + 1])

\* ---- C10: at the top of every loop iteration cur_wave is a valid index,
\* exactly the LED column cur_wave is low, and the PWM plays the buffer of
\* waves[cur_wave] from both slots.
C10_LoopInvariant ==
    pc = "poll" =>
       /\ cur_wave \in 0..(n_waves - 1)
       /\ \A c \in 0..(N_LEDS - 1) : leds[c] = (c # cur_wave)
       /\ pwm_playing
       /\ Block(0) = WaveBuffer(waves[cur_wave + 1])
       /\ Block(1) = WaveBuffer(waves[cur_wave + 1])

\* back at the top of the loop after wrapping below 0 and above n_waves - 1
C10_Witness ==
    /\ pc = "poll" /\ presses >= 2
    /\ prev_wav = n_waves - 1 /\ cur_wave = 0

C4_FillGainIs15 ==
    \A k \in 0..(Len(dest_log) - 1) :
       (k % FACTOR = 0 /\ k \div FACTOR < Len(source)) =>
          dest_log[k + 1] = RESAMPLE_GAIN * (source[k \div FACTOR + 1] - MIDPOINT)

X(j) == IF j >= 1 THEN x_log[j] ELSE 0
Y(j) == IF j >= 1 THEN y_log[j] ELSE 0

\* ---- C6 (as stated): call n returns
\* b0*x_n + b1*x_(n-1) + b2*x_(n-2) - a1*y_(n-1) - a2*y_(n-2),
\* x_n being the input of call n itself.
C6_OutputUsesNewestInput ==
    \A n \in 1..Len(y_log) :
       y_log[n] = biquad(<<X(n), X(n - 1), X(n - 2)>>,
                         <<Y(n - 1), Y(n - 2)>>, COEFFS[s_c])

\* ---- C7: every byte resample yields is clamp(filtered + 128, 0, 255)
\* truncated: 0 below the range, 255 above it, the integer part inside it.
C7_OutputIsSaturated ==
    /\ Len(r_out) = Len(r_filt)
    /\ \A k \in 1..Len(r_out) :
          LET v == r_filt[k] + MIDPOINT * FP
          IN /\ r_out[k] \in 0..255
             /\ v < 0 => r_out[k] = 0
             /\ v >= 255 * FP => r_out[k] = 255
             /\ (0 <= v /\ v < 255 * FP) =>
                   (r_out[k] * FP <= v /\ v < (r_out[k] + 1) * FP)

\* one run in which the cascade left the range on both sides
C7_Witness ==
    /\ \E k \in 1..Len(r_out) :
          r_filt[k] + MIDPOINT * FP < 0 /\ r_out[k] = 0
    /\ \E k \in 1..Len(r_out) :
          r_filt[k] + MIDPOINT * FP > 256 * FP /\ r_out[k] = 255
    /\ \E k \in 1..Len(r_out) : r_out[k] \in 1..254 /\ r_out[k] # MIDPOINT

\* ---- C8: with all input bytes 128 every output is within 2 of 128.
C8_SilenceStaysCentered ==
    (\A i \in 1..Len(r_source) : r_source[i] = MIDPOINT) =>
       \A k \in 1..Len(r_out) :
          r_out[k] >= MIDPOINT - 2 /\ r_out[k] <= MIDPOINT + 2

C8_Witness ==
    /\ Len(r_source) >= 2
    /\ \A i \in 1..Len(r_source) : r_source[i] = MIDPOINT
    /\ Len(r_out) = FACTOR * Len(r_source)
    /\ r_out[Len(r_out)] = MIDPOINT

=============================================================================
